---- MODULE Spec2Model ----
(***************************************************************************)
(* The regnode engine of scripts/python/truman_types_to_devilang.py:       *)
(* regnode_to_expr (renderer), evaluate_regnode (evaluator) and            *)
(* analyze_regnode_complexity (analyzer), driven over a batch of regnodes. *)
(*                                                                         *)
(* A Python int n >= 0 is modelled by the set of the positions of its 1    *)
(* bits (5 is {0, 2}), which keeps Python's unbounded width: 2^64 is {64}. *)
(* A Python dict is a function on its keys, a list is a sequence.          *)
(***************************************************************************)
EXTENDS Integers, Sequences, FiniteSets, TLC

VARIABLES ops, calls

vars == <<ops, calls>>

(***************************************************************************)
(* Bounds of the model.                                                    *)
(***************************************************************************)
\* longest children list of the generated ARG / PHI / SELECT nodes
MaxChildren == 2
\* longest batch of regnodes handed to the driver
MaxOps == 2

(***************************************************************************)
(* Python integers as sets of bit positions.                               *)
(***************************************************************************)
\* number of 1 bits of the mask 0xFFFFFFFFFFFFFFFF
Width == 64
\* number of 1 bits of the mask 0x3F
ShiftBits == 6

RECURSIVE Pow2(_)
Pow2(n) == IF n = 0 THEN 1 ELSE 2 * Pow2(n - 1)

\* the Python int of a small natural number
Bits(n) == {b \in 0..30 : (n \div Pow2(b)) % 2 = 1}

\* the natural number of a Python int below 2^31
RECURSIVE Nat_(_)
Nat_(v) == IF v = {} THEN 0
           ELSE LET b == CHOOSE x \in v : TRUE IN Pow2(b) + Nat_(v \ {b})

MaxOf(S) == CHOOSE m \in S : \A x \in S : x <= m

\* 0xFFFFFFFFFFFFFFFF
MASK64 == 0..(Width - 1)
\* 0x3F
MASK6 == 0..(ShiftBits - 1)

\* a & b, a | b, a << n, a >> n, a + b on Python ints
BitAnd(a, b) == a \cap b
BitOr(a, b) == a \cup b
LeftShift(a, n) == {b + n : b \in a}
RightShift(a, n) == {b - n : b \in {x \in a : x >= n}}
RECURSIVE IntAdd(_, _)
IntAdd(a, b) == IF b = {} THEN a
                ELSE IntAdd((a \cup b) \ (a \cap b), LeftShift(a \cap b, 1))

(***************************************************************************)
(* Python values: None, dicts, dict.get, truthiness.                       *)
(***************************************************************************)
PyNone == [py_none |-> TRUE]
EmptyDict == << >>

\* a faulty variant of Falsy, that takes a record without a nodeValueType for null
FalsyOrUntagged(node) ==
    \/ node = PyNone
    \/ DOMAIN node = {}
    \/ "nodeValueType" \notin DOMAIN node
    \/ node.nodeValueType = ""

\* `not node`: None and the empty dict are falsy
Falsy(node) == node = PyNone \/ DOMAIN node = {}

\* node.get(key, default)
Get(node, key, default) == IF key \in DOMAIN node THEN node[key] ELSE default

\* node.get("varCnt") is not None
HasVarCnt(node) == "varCnt" \in DOMAIN node

\* str(node.get("varCnt", missing))
VarCntStr(node, missing) == IF HasVarCnt(node) THEN ToString(node.varCnt) ELSE missing

ADD == "k_NODE_VALUE_ADD"
AND == "k_NODE_VALUE_AND"
OR == "k_NODE_VALUE_OR"
SHL == "k_NODE_VALUE_SHL"
LSHR == "k_NODE_VALUE_LSHR"
CONST == "k_NODE_VALUE_CONSTANT"
CALL == "k_NODE_VALUE_CALL"
NUM_TYPE == "k_NODE_VALUE_NUM_TYPE"
COMMON == "k_NODE_VALUE_COMMON"
ARG == "k_NODE_VALUE_ARG"
PHI == "k_NODE_VALUE_PHI"
SELECT == "k_NODE_VALUE_SELECT"

BinaryTypes == {ADD, AND, OR, SHL, LSHR}
ControlTypes == {PHI, SELECT}

(***************************************************************************)
(* regnode_to_expr                                                         *)
(***************************************************************************)
HexDigits == <<"0", "1", "2", "3", "4", "5", "6", "7",
               "8", "9", "a", "b", "c", "d", "e", "f">>

Nibble(v, k) == Nat_({b - 4 * k : b \in {x \in v : x \div 4 = k}})

RECURSIVE HexFrom(_, _)
HexFrom(v, k) == IF k < 0 THEN "" ELSE HexDigits[Nibble(v, k) + 1] \o HexFrom(v, k - 1)

\* f"{int(value):x}" of a positive int
Hex(v) == HexFrom(v, MaxOf(v) \div 4)

\* f"0x{int(value):x}" if value else "0"
ConstantExpr(value) == IF value # {} THEN "0x" \o Hex(value) ELSE "0"

\* ', '.join(strings)
RECURSIVE JoinComma(_)
JoinComma(strings) ==
    IF strings = << >> THEN ""
    ELSE IF Len(strings) = 1 THEN strings[1]
    ELSE strings[1] \o ", " \o JoinComma(Tail(strings))

\* op_map
OpSymbol(node_type) ==
    CASE node_type = ADD -> "+"
      [] node_type = AND -> "&"
      [] node_type = OR -> "|"
      [] node_type = SHL -> "<<"
      [] node_type = LSHR -> ">>"
      [] OTHER -> "?"

\* a faulty variant of Parenthesize, that wraps at every depth
ParenthesizeAlways(indent, s) == "(" \o s \o ")"

\* parentheses for nested expressions
Parenthesize(indent, s) == IF indent > 0 THEN "(" \o s \o ")" ELSE s

RECURSIVE regnode_to_expr(_, _)
regnode_to_expr(node, indent) ==
    IF Falsy(node) THEN "null"
    ELSE LET node_type == Get(node, "nodeValueType", "")
             children == Get(node, "children", << >>)
         IN
         IF node_type = CONST THEN ConstantExpr(Get(node, "value", {}))
         ELSE IF node_type = CALL THEN "call_" \o VarCntStr(node, "?") \o "()"
         ELSE IF node_type = NUM_TYPE THEN "num_" \o VarCntStr(node, "?")
         ELSE IF node_type = COMMON THEN "var_" \o VarCntStr(node, "?")
         ELSE IF node_type = ARG THEN
             IF children = << >> THEN "arg(?)"
             ELSE "arg(" \o JoinComma([k \in DOMAIN children |->
                                       regnode_to_expr(children[k], indent)]) \o ")"
         ELSE IF node_type \in BinaryTypes THEN
             IF Len(children) # 2 THEN node_type \o "(?)"
             ELSE Parenthesize(indent,
                     regnode_to_expr(children[1], indent + 1)
                     \o " " \o OpSymbol(node_type) \o " "
                     \o regnode_to_expr(children[2], indent + 1))
         ELSE IF node_type \in ControlTypes THEN
             IF children = << >> THEN node_type \o "()"
             ELSE (IF node_type = PHI THEN "phi" ELSE "select")
                  \o "(" \o JoinComma([k \in DOMAIN children |->
                                       regnode_to_expr(children[k], indent)]) \o ")"
         ELSE "unknown_" \o node_type

(***************************************************************************)
(* evaluate_regnode                                                        *)
(*                                                                         *)
(* One call returns (result, common_values) or raises ValueError; the dict *)
(* common_values is one object mutated in place, so what a call bound      *)
(* before it raised stays in the dict.  An outcome records both, and the   *)
(* trace of the recursive calls: an "enter", then the children's events,   *)
(* then a "return" with the value or a "raise"; path is the node's         *)
(* position (the child indexes from the root of the call).                 *)
(***************************************************************************)
EmptyEnv == << >>

\* the optional argument common_values: None, or a dict
NoneArg == << >>
Some(env) == <<env>>

\* a faulty variant of NewCommonValues, of a mutable default argument:
\* the dict of the latest call made without common_values is used again
NewCommonValuesShared ==
    LET earlier == {j \in DOMAIN calls : /\ calls[j].fn = "evaluate_regnode"
                                        /\ calls[j].common_values = NoneArg}
    IN IF earlier = {} THEN EmptyEnv ELSE calls[MaxOf(earlier)].outcome.env

\* common_values = {} when the caller passed None
NewCommonValues == EmptyEnv

\* random.randint(0, 0xFFFFFFFFFFFFFFFF), two of its values
RandInts == {Bits(4), MASK64}

\* a faulty variant of Store, that keeps an earlier binding of the identifier
StoreFirstWins(node, result, common_values) ==
    IF HasVarCnt(node) /\ node.varCnt \notin DOMAIN common_values
    THEN [j \in DOMAIN common_values \cup {node.varCnt} |->
            IF j = node.varCnt THEN result ELSE common_values[j]]
    ELSE common_values

\* if var_cnt is not None: common_values[var_cnt] = result
Store(node, result, common_values) ==
    IF HasVarCnt(node)
    THEN [j \in DOMAIN common_values \cup {node.varCnt} |->
            IF j = node.varCnt THEN result ELSE common_values[j]]
    ELSE common_values

\* a faulty variant of CommonLookup, that defaults to 0
CommonLookupDefaultZero(node, common_values) ==
    IF HasVarCnt(node) /\ node.varCnt \in DOMAIN common_values
    THEN <<common_values[node.varCnt]>>
    ELSE <<{}>>

\* COMMON: the value found (a one-element list), or nothing (the raise)
CommonLookup(node, common_values) ==
    IF HasVarCnt(node) /\ node.varCnt \in DOMAIN common_values
    THEN <<common_values[node.varCnt]>>
    ELSE << >>

\* a faulty variant of ArgOrder, that evaluates the children up to the selected one
ArgOrderUpToSelected(children, k) == [j \in 1..k |-> j]

\* ARG: the children evaluated when random.choice selects child k
ArgOrder(children, k) == <<k>>

\* binary operations: children[0], then children[1]
BinaryOrder == <<1, 2>>

\* a faulty variant of ControlOrder, that stops after the first child
ControlOrderFirstOnly(children) == <<1>>

\* PHI / SELECT: for child in children
ControlOrder(children) == [j \in 1..Len(children) |-> j]

\* a faulty variant of ShiftAmount, with the mask 0x7F
ShiftAmountSevenBits(right) == Nat_(BitAnd(right, 0..ShiftBits))

\* shift_amount = right & 0x3F
ShiftAmount(right) == Nat_(BitAnd(right, MASK6))

\* a faulty variant of AddResult, that does not wrap
AddResultUnmasked(left, right) == IntAdd(left, right)

\* (left + right) & 0xFFFFFFFFFFFFFFFF
AddResult(left, right) == BitAnd(IntAdd(left, right), MASK64)

\* a faulty variant of BinaryArityError, that accepts surplus children
BinaryArityBelowTwo(children) == Len(children) < 2

\* if len(children) != 2
BinaryArityError(children) == Len(children) # 2

\* if not children
NoChildren(children) == children = << >>

\* the operation's name in its arity error
OpName(node_type) ==
    CASE node_type = ADD -> "ADD"
      [] node_type = AND -> "AND"
      [] node_type = OR -> "OR"
      [] node_type = SHL -> "SHL"
      [] node_type = LSHR -> "LSHR"

\* the result of a binary operation
BinaryResult(node_type, left, right) ==
    CASE node_type = ADD -> AddResult(left, right)
      [] node_type = AND -> BitAnd(left, right)
      [] node_type = OR -> BitOr(left, right)
      [] node_type = SHL -> BitAnd(LeftShift(left, ShiftAmount(right)), MASK64)
      [] node_type = LSHR -> RightShift(left, ShiftAmount(right))

Event(ev, node, value) == [ev |-> ev, path |-> << >>, node |-> node, value |-> value]

\* the events of child k, seen from its parent
Under(k, trace) == [j \in DOMAIN trace |-> [trace[j] EXCEPT !.path = <<k>> \o @]]

\* raise ValueError(error) in the call on node
Raise(node, common_values, error) ==
    [ok |-> FALSE, value |-> {}, env |-> common_values, error |-> error,
     trace |-> <<Event("enter", node, {}), Event("raise", node, {})>>]

\* a child raised: the exception passes through the call on node
Propagate(node, child) ==
    [child EXCEPT !.trace = <<Event("enter", node, {})>> \o @]

\* the shared tail of the call on node: store the result, return
Return(node, result, common_values, trace) ==
    [ok |-> TRUE, value |-> result, env |-> Store(node, result, common_values),
     error |-> "",
     trace |-> <<Event("enter", node, {})>> \o trace \o <<Event("return", node, result)>>]

\* `return 0, common_values` of a falsy node
ReturnNull(node, common_values) ==
    [ok |-> TRUE, value |-> {}, env |-> common_values, error |-> "",
     trace |-> <<Event("enter", node, {}), Event("return", node, {})>>]

RECURSIVE Evaluate(_, _), EvaluateChildren(_, _, _)

\* the calls on children[order[1]], children[order[2]], ... in turn, the dict
\* of each passed to the next; acc is the state before them
EvaluateChildren(children, order, acc) ==
    IF order = << >> \/ ~acc.ok THEN {acc}
    ELSE UNION {EvaluateChildren(children, Tail(order),
                    [ok |-> o.ok,
                     values |-> IF o.ok
                                THEN [j \in DOMAIN acc.values \cup {Head(order)} |->
                                        IF j = Head(order) THEN o.value ELSE acc.values[j]]
                                ELSE acc.values,
                     last |-> o.value,
                     env |-> o.env,
                     error |-> o.error,
                     trace |-> acc.trace \o Under(Head(order), o.trace)])
                : o \in Evaluate(children[Head(order)], acc.env)}

\* the body of evaluate_regnode on a dict common_values: the set of its outcomes
Evaluate(node, common_values) ==
    IF Falsy(node) THEN {ReturnNull(node, common_values)}
    ELSE LET node_type == Get(node, "nodeValueType", "")
             children == Get(node, "children", << >>)
             start == [ok |-> TRUE, values |-> << >>, last |-> {},
                       env |-> common_values, error |-> "", trace |-> << >>]
             Finish(r, result) ==
                 IF r.ok THEN Return(node, result, r.env, r.trace)
                 ELSE Propagate(node, [ok |-> FALSE, value |-> {}, env |-> r.env,
                                       error |-> r.error, trace |-> r.trace])
         IN
         IF node_type = CONST
         THEN {Return(node, Get(node, "value", {}), common_values, << >>)}
         ELSE IF node_type \in {CALL, NUM_TYPE}
         THEN {Return(node, r, common_values, << >>) : r \in RandInts}
         ELSE IF node_type = COMMON
         THEN IF CommonLookup(node, common_values) # << >>
              THEN {Return(node, CommonLookup(node, common_values)[1], common_values, << >>)}
              ELSE {Raise(node, common_values,
                          "No matching var_cnt " \o VarCntStr(node, "None")
                          \o " found for COMMON node")}
         ELSE IF node_type = ARG
         THEN IF NoChildren(children)
              THEN {Raise(node, common_values, "ARG node has no children")}
              ELSE UNION {{Finish(r, r.last)
                           : r \in EvaluateChildren(children, ArgOrder(children, k), start)}
                          : k \in DOMAIN children}
         ELSE IF node_type \in BinaryTypes
         THEN IF BinaryArityError(children)
              THEN {Raise(node, common_values,
                          OpName(node_type) \o " node must have exactly 2 children")}
              ELSE {Finish(r, IF r.ok THEN BinaryResult(node_type, r.values[1], r.values[2])
                                      ELSE {})
                    : r \in EvaluateChildren(children, BinaryOrder, start)}
         ELSE IF node_type \in ControlTypes
         THEN IF NoChildren(children)
              THEN {Raise(node, common_values, node_type \o " node has no children")}
              ELSE UNION {IF r.ok THEN {Finish(r, r.values[k]) : k \in DOMAIN r.values}
                                  ELSE {Finish(r, {})}
                          : r \in EvaluateChildren(children, ControlOrder(children), start)}
         ELSE {Raise(node, common_values, "Unknown node type: " \o node_type)}

\* evaluate_regnode(node, common_values=None)
evaluate_regnode(node, common_values) ==
    Evaluate(node, IF common_values = NoneArg THEN NewCommonValues ELSE common_values[1])

(***************************************************************************)
(* analyze_regnode_complexity                                              *)
(***************************************************************************)
\* the metrics of a falsy node
NullMetrics(depth) ==
    [max_depth |-> depth, total_nodes |-> 0, constants |-> 0,
     operations |-> 0, calls |-> 0, phi_nodes |-> 0]

\* a faulty variant of NodeMetrics, that leaves the node itself out of total_nodes
NodeMetricsUncounted(node_type, depth) ==
    [max_depth |-> depth, total_nodes |-> 0,
     constants |-> IF node_type = CONST THEN 1 ELSE 0,
     operations |-> IF node_type \in BinaryTypes THEN 1 ELSE 0,
     calls |-> IF node_type \in {CALL, NUM_TYPE} THEN 1 ELSE 0,
     phi_nodes |-> IF node_type \in ControlTypes THEN 1 ELSE 0]

\* the metrics of the node itself
NodeMetrics(node_type, depth) ==
    [max_depth |-> depth, total_nodes |-> 1,
     constants |-> IF node_type = CONST THEN 1 ELSE 0,
     operations |-> IF node_type \in BinaryTypes THEN 1 ELSE 0,
     calls |-> IF node_type \in {CALL, NUM_TYPE} THEN 1 ELSE 0,
     phi_nodes |-> IF node_type \in ControlTypes THEN 1 ELSE 0]

\* one round of the loop over the children
Accumulate(metrics, child_metrics) ==
    [max_depth |-> IF child_metrics.max_depth > metrics.max_depth
                   THEN child_metrics.max_depth ELSE metrics.max_depth,
     total_nodes |-> metrics.total_nodes + child_metrics.total_nodes,
     constants |-> metrics.constants + child_metrics.constants,
     operations |-> metrics.operations + child_metrics.operations,
     calls |-> metrics.calls + child_metrics.calls,
     phi_nodes |-> metrics.phi_nodes + child_metrics.phi_nodes]

RECURSIVE analyze_regnode_complexity(_, _), AnalyzeChildren(_, _, _)

\* for child in children, from the metrics so far
AnalyzeChildren(children, depth, metrics) ==
    IF children = << >> THEN metrics
    ELSE AnalyzeChildren(Tail(children), depth,
             Accumulate(metrics, analyze_regnode_complexity(Head(children), depth + 1)))

analyze_regnode_complexity(node, depth) ==
    IF Falsy(node) THEN NullMetrics(depth)
    ELSE AnalyzeChildren(Get(node, "children", << >>), depth,
                         NodeMetrics(Get(node, "nodeValueType", ""), depth))

(***************************************************************************)
(* print_ops.  A printed line is the sequence of the pieces of its         *)
(* f-string, literal text and formatted values in turn; its text is their  *)
(* concatenation.  The local variable expr lives for the whole call.       *)
(***************************************************************************)
\* 0xdeadbeef and 0xdeadc0de
DEADBEEF == {0, 1, 2, 3, 5, 6, 7, 9, 10, 11, 12, 13, 15, 16, 18, 19, 21, 23,
             25, 26, 27, 28, 30, 31}
DEADC0DE == {1, 2, 3, 4, 6, 7, 14, 15, 16, 18, 19, 21, 23, 25, 26, 27, 28, 30, 31}

\* str.lower() on the rw strings
Lower(rw) ==
    CASE rw = "W" -> "w"
      [] rw = "R" -> "r"
      [] OTHER -> rw

\* hex(addr)
PyHex(addr) == IF addr = {} THEN "0x0" ELSE "0x" \o Hex(addr)

\* the local variable expr: not yet assigned, or assigned
Unbound == << >>
Bound(expr) == <<expr>>

\* print("}\n")
CloseOp == << <<"}">>, <<"">> >>

\* one iteration of the loop, entered with the local variable expr
PrintOp(op, expr) ==
    LET op_id == Get(op, "id", "N/A") IN
    IF "operation" \in DOMAIN op
    THEN LET operation == op.operation
             rw == Lower(Get(operation, "rw", "?"))
             name == Get(operation, "name", "unknown")
             size == Get(operation, "size", "?")
             regs == Get(operation, "reg", << >>)
             addr == IF regs # << >> THEN regs[1] ELSE {}
             regNode == Get(operation, "regNode", EmptyDict)
             region_id == Get(operation, "regionId", "0")
             rendered == ~Falsy(regNode) /\ Lower(rw) = "w"
             expr1 == IF rendered THEN Bound(regnode_to_expr(regNode, 0)) ELSE expr
             head == << <<"op op_", op_id, " {">> >>
             mmio(address) ==
                 << <<"    mmio ", name, "_", op_id, " {">>,
                    <<"        direction=", Lower(rw), ";">>,
                    <<"        region=", region_id, ";">>,
                    <<"        address=", address, ";">>,
                    <<"        size=", size, ";">> >>
             done(lines) ==
                 [lines |-> lines, rendered |-> rendered, expr |-> expr1, error |-> ""]
         IN IF rw = "w"
            THEN LET address == IF addr = DEADBEEF \/ addr = DEADC0DE
                                THEN "unknown" ELSE PyHex(addr)
                 IN IF expr1 = Unbound
                    THEN [lines |-> head \o mmio(address), rendered |-> rendered,
                          expr |-> expr1, error |-> "UnboundLocalError"]
                    ELSE done(head \o mmio(address)
                              \o << <<"        data=", expr1[1], ";">>, <<"    }">> >>
                              \o CloseOp)
            ELSE IF rw = "r"
            THEN done(head \o mmio(PyHex(addr)) \o << <<"    }">> >> \o CloseOp)
            ELSE done(head \o CloseOp)
    ELSE IF "callee" \in DOMAIN op
    THEN [lines |-> << <<"op op_", op_id, " {">>,
                       <<"    call ", Get(op.callee, "name", "unknown"), ";">> >>
                    \o CloseOp,
          rendered |-> FALSE, expr |-> expr, error |-> ""]
    ELSE [lines |-> << <<"Op[", op_id, "] UNKNOWN_OP">> >>,
          rendered |-> FALSE, expr |-> expr, error |-> ""]

\* for op in ops, from the j-th on; then print()
RECURSIVE PrintFrom(_, _, _, _)
PrintFrom(device_ops, j, expr, iterations) ==
    IF j > Len(device_ops)
    THEN [iterations |-> iterations, tail |-> << <<"">> >>, error |-> ""]
    ELSE LET it == PrintOp(device_ops[j], expr) IN
         IF it.error # ""
         THEN [iterations |-> Append(iterations, it), tail |-> << >>, error |-> it.error]
         ELSE PrintFrom(device_ops, j + 1, it.expr, Append(iterations, it))

\* print_ops(ops): what each iteration printed, and the exception if one was raised
print_ops(device_ops) == PrintFrom(device_ops, 1, Unbound, << >>)

(***************************************************************************)
(* The regnodes of the input records.                                      *)
(***************************************************************************)
Constant(value) == [nodeValueType |-> CONST, value |-> value]
Leaf(node_type, var_cnt) == [nodeValueType |-> node_type, varCnt |-> var_cnt]
Node(node_type, children) == [nodeValueType |-> node_type, children |-> children]
WithVarCnt(node, var_cnt) ==
    [k \in DOMAIN node \cup {"varCnt"} |-> IF k = "varCnt" THEN var_cnt ELSE node[k]]

\* the lists over S of at most n entries
ListsUpTo(S, n) == UNION {[1..k -> S] : k \in 0..n}

\* operands of the arithmetic: small values, the shift amounts around 64,
\* and the values at the top of the 64-bit range
ArithValues ==
    {Bits(0), Bits(1), Bits(2), Bits(3), Bits(5), Bits(63), Bits(64), Bits(65),
     {32}, {Width - 1}, MASK64, MASK64 \ {0}}

ArithNodes ==
    {Node(t, <<Constant(l), Constant(r)>>) : t \in BinaryTypes, l \in ArithValues, r \in ArithValues}

\* leaves that bind or read the identifiers 7 and 9
SharingLeaves ==
    {WithVarCnt(Constant(Bits(5)), 7), WithVarCnt(Constant(Bits(2)), 9),
     Leaf(CALL, 9), Leaf(COMMON, 7), Leaf(COMMON, 9)}

PlainLeaves ==
    {Constant(Bits(0)), Constant(Bits(1)), Leaf(CALL, 1), Leaf(NUM_TYPE, 2),
     PyNone, EmptyDict,
     [nodeValueType |-> CONST], [nodeValueType |-> CALL], [nodeValueType |-> COMMON]}

VariadicNodes ==
    {Node(t, cs) : t \in {ARG, PHI, SELECT}, cs \in ListsUpTo(SharingLeaves, MaxChildren)}

SharingNodes ==
    {Node(t, <<l, r>>) : t \in BinaryTypes, l \in SharingLeaves, r \in SharingLeaves}

\* a variadic node followed by a reference to what a child of it may have bound
FollowedNodes ==
    {Node(ADD, <<v, Leaf(COMMON, 9)>>) : v \in VariadicNodes}

\* nodes that carry an identifier themselves, over children that bind it too
IdentifiedNodes ==
    {WithVarCnt(n, 7) : n \in VariadicNodes \cup SharingNodes}

ConstOne == Constant(Bits(1))
ConstTwo == Constant(Bits(2))
ConstThree == Constant(Bits(3))

\* binary operations nested under binary operations and under ARG / PHI / SELECT
NestedNodes ==
    LET inner == {Node(t, <<ConstOne, ConstTwo>>) : t \in BinaryTypes}
        wrapped == {Node(t, <<i>>) : t \in {ARG, PHI, SELECT}, i \in inner}
    IN UNION {
        {Node(t, <<i, ConstThree>>) : t \in BinaryTypes, i \in inner},
        {Node(t, <<ConstThree, i>>) : t \in BinaryTypes, i \in inner},
        {Node(t, <<i, j>>) : t \in {ADD}, i \in inner, j \in inner},
        {Node(t, <<i, ConstThree>>) : t \in {ARG, PHI, SELECT}, i \in inner},
        {Node(t, <<w, ConstThree>>) : t \in {ADD, SHL}, w \in wrapped},
        {Node(ADD, <<Node(OR, <<i, ConstThree>>), ConstThree>>) : i \in inner},
        {Node(t, <<n, ConstThree>>) : t \in {ADD, ARG, PHI}, n \in {PyNone, EmptyDict}} }

\* records outside the node model: no tag, an empty tag, an unknown tag,
\* a binary operation without its two children
MalformedNodes ==
    {[varCnt |-> 7], [children |-> <<ConstOne>>], [value |-> Bits(1)],
     [nodeValueType |-> ""], [nodeValueType |-> "", varCnt |-> 9],
     [nodeValueType |-> "k_NODE_VALUE_MUL"],
     Node("k_NODE_VALUE_MUL", <<ConstOne, ConstTwo>>)}
    \cup {Node(t, cs) : t \in BinaryTypes,
                        cs \in {<< >>, <<ConstOne>>, <<ConstOne, ConstTwo, ConstThree>>}}

\* Add(x, Common(7)) with x = Constant(5), carrying the identifier 7 and not
CommonBound == Node(ADD, <<WithVarCnt(Constant(Bits(5)), 7), Leaf(COMMON, 7)>>)
CommonUnbound == Node(ADD, <<Constant(Bits(5)), Leaf(COMMON, 7)>>)

\* Add(Constant(1), Phi([Call(1), NumType(2)]))
AnalyzerExample ==
    Node(ADD, <<Constant(Bits(1)), Node(PHI, <<Leaf(CALL, 1), Leaf(NUM_TYPE, 2)>>)>>)

\* nodes with the wrong number of children: with children that would bind,
\* with an identifier of their own, and below a sibling that has bound
ArityNodes ==
    LET binder == WithVarCnt(Constant(Bits(5)), 7) IN
    UNION {
        {Node(t, <<binder, ConstTwo, ConstThree>>) : t \in BinaryTypes},
        {WithVarCnt(Node(t, <<binder>>), 9) : t \in BinaryTypes},
        {Node(ADD, <<binder, Node(t, << >>)>>) : t \in {ARG, PHI, SELECT, SHL}},
        {Node(PHI, <<binder, Node(t, <<Leaf(COMMON, 7)>>)>>) : t \in {AND, LSHR}}}

RegNodes ==
    UNION {ArithNodes, SharingLeaves, PlainLeaves, VariadicNodes, SharingNodes,
           FollowedNodes, IdentifiedNodes, NestedNodes, MalformedNodes, ArityNodes,
           {CommonBound, CommonUnbound}, {AnalyzerExample}}

\* the regnodes of the batches of more than one operation
BatchNodes ==
    {WithVarCnt(Constant(Bits(5)), 7), Leaf(COMMON, 7), Leaf(CALL, 9),
     Node(ADD, <<Leaf(COMMON, 9), WithVarCnt(Constant(Bits(1)), 9)>>)}

Batches ==
    {<<n>> : n \in RegNodes} \cup UNION {[1..k -> BatchNodes] : k \in 2..MaxOps}

\* the dicts a caller passes as common_values
GivenEnvs ==
    {EmptyEnv, [i \in {7} |-> Bits(1)], [i \in {7, 9} |-> IF i = 7 THEN Bits(3) ELSE MASK64]}

\* the fields of an operation record around its regNode: a write, a write
\* in upper case to the unknown address, a write whose record has no regNode,
\* a read without reg, a read, a function call, a record of neither kind
OpShapes ==
    {[kind |-> "operation", rw |-> "w", reg |-> <<Bits(16)>>, regNode |-> TRUE],
     [kind |-> "operation", rw |-> "W", reg |-> <<DEADBEEF>>, regNode |-> TRUE],
     [kind |-> "operation", rw |-> "w", reg |-> <<DEADC0DE>>, regNode |-> FALSE],
     [kind |-> "operation", rw |-> "r", reg |-> << >>, regNode |-> TRUE],
     [kind |-> "operation", rw |-> "R", reg |-> <<Bits(16)>>, regNode |-> FALSE],
     [kind |-> "callee"],
     [kind |-> "other"]}

\* the j-th record of device_data["ops"], of a shape, around a regnode
Operation(j, shape, node) ==
    IF shape.kind = "operation"
    THEN [id |-> ToString(j),
          operation |->
             LET fields == [type |-> "mmio", rw |-> shape.rw, name |-> "reg",
                            size |-> "4", reg |-> shape.reg, regionId |-> "0"]
             IN IF shape.regNode
                THEN [k \in DOMAIN fields \cup {"regNode"} |->
                        IF k = "regNode" THEN node ELSE fields[k]]
                ELSE fields]
    ELSE IF shape.kind = "callee"
    THEN [id |-> ToString(j), callee |-> [name |-> "f"]]
    ELSE [id |-> ToString(j)]

(***************************************************************************)
(* The driver: the batch is either printed whole by print_ops, or handled  *)
(* by one call per operation, in order.  calls is the log of the calls     *)
(* made, each with what it returned.                                       *)
(***************************************************************************)
Init ==
    /\ ops \in Batches
    /\ calls = << >>

\* print_ops has handled the batch
Printed == calls # << >> /\ calls[1].fn = "print_ops"

Pending == Len(calls) < Len(ops) /\ ~Printed
NextNode == ops[Len(calls) + 1]

\* value, env = evaluate_regnode(regNode)
CallEvaluate ==
    /\ Pending
    /\ \E outcome \in evaluate_regnode(NextNode, NoneArg) :
          calls' = Append(calls, [fn |-> "evaluate_regnode", node |-> NextNode,
                                  common_values |-> NoneArg, outcome |-> outcome])
    /\ UNCHANGED ops

\* value, env = evaluate_regnode(regNode, common_values)
CallEvaluateWith ==
    /\ Pending
    /\ \E given \in GivenEnvs :
          \E outcome \in evaluate_regnode(NextNode, Some(given)) :
             calls' = Append(calls, [fn |-> "evaluate_regnode", node |-> NextNode,
                                     common_values |-> Some(given), outcome |-> outcome])
    /\ UNCHANGED ops

\* expr = regnode_to_expr(regNode)
CallRender ==
    /\ Pending
    /\ calls' = Append(calls, [fn |-> "regnode_to_expr", node |-> NextNode,
                               expr |-> regnode_to_expr(NextNode, 0)])
    /\ UNCHANGED ops

\* metrics = analyze_regnode_complexity(regNode)
CallAnalyze ==
    /\ Pending
    /\ calls' = Append(calls, [fn |-> "analyze_regnode_complexity", node |-> NextNode,
                               metrics |-> analyze_regnode_complexity(NextNode, 0)])
    /\ UNCHANGED ops

\* print_ops(device_data["ops"]), on the whole batch
CallPrintOps ==
    /\ calls = << >>
    /\ \E shapes \in [DOMAIN ops -> OpShapes] :
          LET device_ops == [j \in DOMAIN ops |-> Operation(j, shapes[j], ops[j])]
          IN calls' = Append(calls, [fn |-> "print_ops", ops |-> device_ops,
                                     printed |-> print_ops(device_ops)])
    /\ UNCHANGED ops

Next ==
    \/ CallEvaluate
    \/ CallEvaluateWith
    \/ CallRender
    \/ CallAnalyze
    \/ CallPrintOps

Spec == Init /\ [][Next]_vars

(***************************************************************************)
(* What the properties below read off the log.                             *)
(***************************************************************************)
EvaluateCalls == {calls[j] : j \in {k \in DOMAIN calls : calls[k].fn = "evaluate_regnode"}}
RenderCalls == {calls[j] : j \in {k \in DOMAIN calls : calls[k].fn = "regnode_to_expr"}}
AnalyzeCalls ==
    {calls[j] : j \in {k \in DOMAIN calls : calls[k].fn = "analyze_regnode_complexity"}}

\* the dict the call started from
GivenEnv(c) == IF c.common_values = NoneArg THEN EmptyEnv ELSE c.common_values[1]

TypeOf(node) == Get(node, "nodeValueType", "")
ChildrenOf(node) == Get(node, "children", << >>)

\* the events before position k of trace T at which a node carrying identifier i returned
Binders(T, k, i) ==
    {j \in 1..(k - 1) : /\ T[j].ev = "return"
                        /\ HasVarCnt(T[j].node)
                        /\ T[j].node.varCnt = i}

\* the error of an unresolved COMMON reference to identifier i
Unresolved(i) == "No matching var_cnt " \o ToString(i) \o " found for COMMON node"

\* the positions of trace T with event ev on a node of one of the types
Events(T, ev, types) == {k \in DOMAIN T : T[k].ev = ev /\ TypeOf(T[k].node) \in types}

\* the dict after the bindings of the returns of trace T, in order, on env
RECURSIVE Replay(_, _)
Replay(env, T) ==
    IF T = << >> THEN env
    ELSE Replay(IF Head(T).ev = "return" /\ HasVarCnt(Head(T).node)
                THEN [j \in DOMAIN env \cup {Head(T).node.varCnt} |->
                        IF j = Head(T).node.varCnt THEN Head(T).value ELSE env[j]]
                ELSE env,
                Tail(T))

(***************************************************************************)
(* C1.  A COMMON node with identifier i evaluates to the value most        *)
(* recently bound to i earlier in the same traversal (by the latest node   *)
(* carrying i that returned before it, else by the dict the call was       *)
(* given), the left child of a binary operation is evaluated before the    *)
(* right one, and evaluation fails when i is not bound: Add(x, Common(7))  *)
(* with x = Constant(5) carrying 7 is 10, and without the identifier on x  *)
(* the call raises the unresolved-reference error.                         *)
(***************************************************************************)
C1_CommonResolution ==
    \A c \in EvaluateCalls :
       LET T == c.outcome.trace IN
       /\ \A k \in Events(T, "return", {COMMON}) :
             /\ HasVarCnt(T[k].node)
             /\ LET i == T[k].node.varCnt
                    b == Binders(T, k, i)
                IN IF b # {} THEN T[k].value = T[MaxOf(b)].value
                   ELSE /\ i \in DOMAIN GivenEnv(c)
                        /\ T[k].value = GivenEnv(c)[i]
       /\ \A k \in Events(T, "raise", {COMMON}) :
             /\ ~c.outcome.ok
             /\ HasVarCnt(T[k].node) =>
                   /\ Binders(T, k, T[k].node.varCnt) = {}
                   /\ T[k].node.varCnt \notin DOMAIN GivenEnv(c)
                   /\ c.outcome.error = Unresolved(T[k].node.varCnt)
       /\ \A k \in Events(T, "enter", BinaryTypes) :
             \A l, r \in DOMAIN T :
                (T[l].path = T[k].path \o <<1>> /\ T[r].path = T[k].path \o <<2>>) => l < r
       /\ (c.node = CommonBound /\ c.common_values = NoneArg) =>
             (c.outcome.ok /\ c.outcome.value = Bits(10))
       /\ (c.node = CommonUnbound /\ c.common_values = NoneArg) =>
             (~c.outcome.ok /\ c.outcome.error = Unresolved(7))

\* both examples of C1 were evaluated: the resolved one in the first call
\* of a batch, or the unresolved one with a dict that does not bind 7 either
C1_Witness ==
    \E c \in EvaluateCalls :
       /\ c.node = CommonBound
       /\ c.common_values = NoneArg
       /\ c.outcome.ok
       /\ \E k \in Events(c.outcome.trace, "return", {COMMON}) :
             c.outcome.trace[k].value = Bits(5)

(***************************************************************************)
(* C2.  An ARG node with children evaluates exactly one of them: one child *)
(* is entered and no sibling.  In Add(Arg(cs), Common(9)) evaluated from   *)
(* a dict without 9, when the selected child returned and does not carry   *)
(* the identifier 9, the COMMON(9) evaluated next fails with the           *)
(* unresolved-reference error and the dict has no binding for 9, whatever  *)
(* the siblings would have bound.                                          *)
(***************************************************************************)
C2_ArgShortCircuit ==
    \A c \in EvaluateCalls :
       LET T == c.outcome.trace IN
       /\ \A k \in Events(T, "enter", {ARG}) :
             ChildrenOf(T[k].node) # << >> =>
                Cardinality({j \in DOMAIN ChildrenOf(T[k].node) :
                               \E e \in DOMAIN T : T[e].path = T[k].path \o <<j>>}) = 1
       /\ ( /\ TypeOf(c.node) = ADD
            /\ Len(ChildrenOf(c.node)) = 2
            /\ TypeOf(c.node.children[1]) = ARG
            /\ c.node.children[2] = Leaf(COMMON, 9)
            /\ ~HasVarCnt(c.node.children[1])
            /\ 9 \notin DOMAIN GivenEnv(c) ) =>
               \A e \in DOMAIN T :
                  ( /\ T[e].ev = "return"
                    /\ Len(T[e].path) = 2
                    /\ ~(HasVarCnt(T[e].node) /\ T[e].node.varCnt = 9) ) =>
                        /\ ~c.outcome.ok
                        /\ c.outcome.error = Unresolved(9)
                        /\ 9 \notin DOMAIN c.outcome.env

\* Arg([A, B]) where only B binds 9: A was selected, and Common(9) failed
C2_Witness ==
    \E c \in EvaluateCalls :
       /\ c.node = Node(ADD, <<Node(ARG, <<WithVarCnt(Constant(Bits(5)), 7),
                                           WithVarCnt(Constant(Bits(2)), 9)>>),
                               Leaf(COMMON, 9)>>)
       /\ c.common_values = NoneArg
       /\ \E e \in DOMAIN c.outcome.trace :
             c.outcome.trace[e].ev = "return" /\ c.outcome.trace[e].path = <<1, 1>>
       /\ ~c.outcome.ok
       /\ c.outcome.error = Unresolved(9)

(***************************************************************************)
(* C3.  A PHI or SELECT node that returns has evaluated every child, in    *)
(* list order, each child returning before the next is entered; its value  *)
(* is the value one of its children returned; and the dict returned holds  *)
(* the bindings of all the children applied in that order (a later child   *)
(* overwriting an earlier one), then the node's own.                       *)
(***************************************************************************)
C3_ControlEvaluatesAll ==
    \A c \in EvaluateCalls :
       LET T == c.outcome.trace IN
       /\ \A k \in Events(T, "return", ControlTypes) :
             LET p == T[k].path
                 n == Len(ChildrenOf(T[k].node))
                 start == MaxOf({j \in 1..k : T[j].ev = "enter" /\ T[j].path = p})
                 entered == [j \in 1..n |->
                               {e \in start..k : T[e].ev = "enter" /\ T[e].path = p \o <<j>>}]
                 returned == [j \in 1..n |->
                               {e \in start..k : T[e].ev = "return" /\ T[e].path = p \o <<j>>}]
             IN /\ n >= 1
                /\ \A j \in 1..n : Cardinality(entered[j]) = 1 /\ Cardinality(returned[j]) = 1
                /\ \A j \in 1..(n - 1) : MaxOf(returned[j]) < MaxOf(entered[j + 1])
                /\ \E j \in 1..n : T[k].value = T[MaxOf(returned[j])].value
       /\ (TypeOf(c.node) \in ControlTypes /\ c.outcome.ok) =>
             /\ c.outcome.env = Replay(GivenEnv(c), T)
             /\ \A j \in DOMAIN ChildrenOf(c.node) :
                   LET child == c.node.children[j] IN
                   (HasVarCnt(child) /\ ~(HasVarCnt(c.node) /\ c.node.varCnt = child.varCnt)) =>
                       /\ child.varCnt \in DOMAIN c.outcome.env
                       /\ \E e \in DOMAIN T :
                             /\ T[e].ev = "return"
                             /\ Len(T[e].path) = 1
                             /\ HasVarCnt(T[e].node)
                             /\ T[e].node.varCnt = child.varCnt
                             /\ c.outcome.env[child.varCnt] = T[e].value
                             /\ \A f \in (e + 1)..Len(T) :
                                   ~(T[f].ev = "return" /\ HasVarCnt(T[f].node)
                                     /\ T[f].node.varCnt = child.varCnt)

\* Phi([A, B]) with A binding 7 and B binding 9 returned A's value,
\* and the dict holds B's binding too
C3_Witness ==
    \E c \in EvaluateCalls :
       /\ c.node = Node(PHI, <<WithVarCnt(Constant(Bits(5)), 7),
                               WithVarCnt(Constant(Bits(2)), 9)>>)
       /\ c.outcome.ok
       /\ c.outcome.value = Bits(5)
       /\ 9 \in DOMAIN c.outcome.env
       /\ c.outcome.env[9] = Bits(2)

(***************************************************************************)
(* C4.  A node of any variant that carries an identifier i and whose       *)
(* evaluation succeeds is bound after its children: the dict returned maps *)
(* i to exactly the value returned, also when a descendant bound i to      *)
(* another value during the call.                                          *)
(***************************************************************************)
C4_OwnBindingLast ==
    \A c \in EvaluateCalls :
       (c.outcome.ok /\ HasVarCnt(c.node)) =>
          /\ c.node.varCnt \in DOMAIN c.outcome.env
          /\ c.outcome.env[c.node.varCnt] = c.outcome.value

\* an internal node carrying 7 returned a value other than the one a
\* descendant carrying 7 returned
C4_Witness ==
    \E c \in EvaluateCalls :
       /\ c.outcome.ok
       /\ HasVarCnt(c.node)
       /\ ChildrenOf(c.node) # << >>
       /\ \E e \in DOMAIN c.outcome.trace :
             /\ c.outcome.trace[e].ev = "return"
             /\ c.outcome.trace[e].path # << >>
             /\ HasVarCnt(c.outcome.trace[e].node)
             /\ c.outcome.trace[e].node.varCnt = c.node.varCnt
             /\ c.outcome.trace[e].value # c.outcome.value

InRange(v) == v \subseteq MASK64

RECURSIVE ConstantsInRange(_)
ConstantsInRange(node) ==
    /\ InRange(Get(node, "value", {}))
    /\ \A k \in DOMAIN ChildrenOf(node) : ConstantsInRange(node.children[k])

\* the value child j of the node that returned at position k of T returned
ChildValue(T, k, j) ==
    T[MaxOf({e \in 1..k : T[e].ev = "return" /\ T[e].path = T[k].path \o <<j>>})].value

WrapExample == Node(ADD, <<Constant(MASK64), Constant(Bits(1))>>)

(***************************************************************************)
(* C5.  Evaluated from an empty dict, a tree whose constants lie in        *)
(* 0..2^64-1 yields only values in 0..2^64-1: the value returned, every    *)
(* value a node returned on the way and every value bound in the dict.     *)
(* ADD returns (left + right) mod 2^64: the sum, less 2^64 when it does    *)
(* not fit; Add(Constant(2^64-1), Constant(1)) is 0.                       *)
(***************************************************************************)
C5_Unsigned64 ==
    \A c \in EvaluateCalls :
       (GivenEnv(c) = EmptyEnv /\ ConstantsInRange(c.node)) =>
          LET T == c.outcome.trace IN
          /\ c.outcome.ok => InRange(c.outcome.value)
          /\ \A i \in DOMAIN c.outcome.env : InRange(c.outcome.env[i])
          /\ \A k \in DOMAIN T : InRange(T[k].value)
          /\ \A k \in Events(T, "return", {ADD}) :
                LET left == ChildValue(T, k, 1)
                    right == ChildValue(T, k, 2)
                IN /\ \E carry \in {{}, {Width}} :
                         IntAdd(T[k].value, carry) = IntAdd(left, right)
                   /\ (left \subseteq 0..15 /\ right \subseteq 0..15) =>
                         T[k].value = Bits(Nat_(left) + Nat_(right))
          /\ c.node = WrapExample => (c.outcome.ok /\ c.outcome.value = {})

\* an ADD whose sum does not fit in 64 bits was evaluated
C5_Witness ==
    \E c \in EvaluateCalls :
       /\ GivenEnv(c) = EmptyEnv
       /\ c.node = WrapExample
       /\ c.outcome.ok
       /\ ~InRange(IntAdd(c.node.children[1].value, c.node.children[2].value))

\* right mod 64: right is a multiple of 64 plus it
Mod64(right) == CHOOSE k \in 0..63 : IntAdd(right \ (0..5), Bits(k)) = right

\* v * 2^k, by k doublings
RECURSIVE TimesPow2(_, _)
TimesPow2(v, k) == IF k = 0 THEN v ELSE TimesPow2(IntAdd(v, v), k - 1)

(***************************************************************************)
(* C6.  SHL and LSHR shift by right mod 64, the low 6 bits of the right    *)
(* operand: for left and right in 0..2^64-1, Shl(left, right) is           *)
(* (left * 2^(right mod 64)) mod 2^64 and Lshr(left, right) is             *)
(* left div 2^(right mod 64); Shl(Constant(1), Constant(64)) and           *)
(* Shl(Constant(1), Constant(0)) are both 1.                               *)
(***************************************************************************)
C6_ShiftMasking ==
    \A c \in EvaluateCalls :
       LET T == c.outcome.trace IN
       /\ \A k \in Events(T, "return", {SHL, LSHR}) :
             LET left == ChildValue(T, k, 1)
                 right == ChildValue(T, k, 2)
                 amount == Mod64(right)
             IN (InRange(left) /\ InRange(right)) =>
                   IF TypeOf(T[k].node) = SHL
                   THEN T[k].value = TimesPow2(left, amount) \cap MASK64
                   ELSE /\ IntAdd(TimesPow2(T[k].value, amount),
                                  left \cap (0..(amount - 1))) = left
       /\ c.node \in {Node(SHL, <<Constant(Bits(1)), Constant(Bits(64))>>),
                      Node(SHL, <<Constant(Bits(1)), Constant(Bits(0))>>)} =>
             (c.outcome.ok /\ c.outcome.value = Bits(1))

\* Shl(Constant(1), Constant(64)) was evaluated: the amount is 64 mod 64
C6_Witness ==
    \E c \in EvaluateCalls :
       /\ c.node = Node(SHL, <<Constant(Bits(1)), Constant(Bits(64))>>)
       /\ c.outcome.ok
       /\ c.outcome.value = Bits(1)
       /\ Mod64(c.node.children[2].value) = 0

\* the positions of the tree: the child indexes from the root, the
\* positions of null children included
RECURSIVE Positions(_)
Positions(node) ==
    {<< >>} \cup UNION {{<<k>> \o p : p \in Positions(node.children[k])}
                        : k \in DOMAIN ChildrenOf(node)}

RECURSIVE NodeAt(_, _)
NodeAt(node, p) == IF p = << >> THEN node ELSE NodeAt(node.children[Head(p)], Tail(p))

VariadicName(node) ==
    CASE TypeOf(node) = ARG -> "arg"
      [] TypeOf(node) = PHI -> "phi"
      [] TypeOf(node) = SELECT -> "select"

IsBinary(node) == TypeOf(node) \in BinaryTypes /\ Len(ChildrenOf(node)) = 2

ParenExample ==
    Node(ADD, <<Node(ADD, <<Constant(Bits(1)), Constant(Bits(2))>>), Constant(Bits(3))>>)

(***************************************************************************)
(* C7.  regnode_to_expr renders a binary operation that is not under       *)
(* another binary operation as `left op right`, without parentheses, and   *)
(* a binary operation under a binary operation as its own rendering        *)
(* wrapped in parentheses; ARG, PHI and SELECT render their children as    *)
(* the children render on their own, adding no parentheses around them.    *)
(* render(Add(Add(Constant(1), Constant(2)), Constant(3))) is              *)
(* "(0x1 + 0x2) + 0x3".                                                    *)
(***************************************************************************)
C7_Parenthesization ==
    \A c \in RenderCalls :
       /\ IsBinary(c.node) =>
             c.expr = regnode_to_expr(c.node.children[1], 1)
                      \o " " \o OpSymbol(TypeOf(c.node)) \o " "
                      \o regnode_to_expr(c.node.children[2], 1)
       /\ (TypeOf(c.node) \in {ARG, PHI, SELECT} /\ ChildrenOf(c.node) # << >>) =>
             c.expr = VariadicName(c.node)
                      \o "(" \o JoinComma([k \in DOMAIN c.node.children |->
                                             regnode_to_expr(c.node.children[k], 0)]) \o ")"
       /\ \A p \in Positions(c.node) :
             LET n == NodeAt(c.node, p) IN
             /\ IsBinary(n) =>
                   \A depth \in 1..Len(p) :
                      regnode_to_expr(n, depth) = "(" \o regnode_to_expr(n, 0) \o ")"
             /\ (TypeOf(n) \in {ARG, PHI, SELECT} /\ ChildrenOf(n) # << >>) =>
                   \A depth \in 0..Len(p) :
                      regnode_to_expr(n, depth)
                         = VariadicName(n)
                           \o "(" \o JoinComma([k \in DOMAIN n.children |->
                                                  regnode_to_expr(n.children[k], depth)]) \o ")"
       /\ c.node = ParenExample => c.expr = "(0x1 + 0x2) + 0x3"

\* the example was rendered
C7_Witness ==
    \E c \in RenderCalls : c.node = ParenExample /\ c.expr = "(0x1 + 0x2) + 0x3"

\* the number of nodes of the tree that are not null and have one of the types
CountOf(node, types) ==
    Cardinality({p \in Positions(node) : /\ ~Falsy(NodeAt(node, p))
                                         /\ TypeOf(NodeAt(node, p)) \in types})

(***************************************************************************)
(* C8 as stated.  analyze_regnode_complexity on                            *)
(* Add(Constant(1), Phi([Call(1), NumType(2)])) returns total_nodes=4,     *)
(* constants=1, operations=1, calls=2, phi_nodes=1, max_depth=2.           *)
(***************************************************************************)
C8_AsStated ==
    \A c \in AnalyzeCalls :
       c.node = AnalyzerExample =>
          c.metrics = [total_nodes |-> 4, constants |-> 1, operations |-> 1,
                       calls |-> 2, phi_nodes |-> 1, max_depth |-> 2]

(***************************************************************************)
(* C8 amended.  On Add(Constant(1), Phi([Call(1), NumType(2)])) the        *)
(* analyzer returns total_nodes=5, constants=1, operations=1, calls=2,     *)
(* phi_nodes=1, max_depth=2; on every tree total_nodes is the number of    *)
(* all nodes, the root included, the other counts are the numbers of       *)
(* nodes of their kinds, and max_depth is the depth of the deepest leaf    *)
(* with the root at depth 0.                                               *)
(***************************************************************************)
C8_AnalyzerCounts ==
    \A c \in AnalyzeCalls :
       /\ c.node = AnalyzerExample =>
             c.metrics = [total_nodes |-> 5, constants |-> 1, operations |-> 1,
                          calls |-> 2, phi_nodes |-> 1, max_depth |-> 2]
       /\ ~Falsy(c.node) =>
             /\ c.metrics.total_nodes
                   = Cardinality({p \in Positions(c.node) : ~Falsy(NodeAt(c.node, p))})
             /\ c.metrics.total_nodes >= 1
             /\ c.metrics.constants = CountOf(c.node, {CONST})
             /\ c.metrics.operations = CountOf(c.node, BinaryTypes)
             /\ c.metrics.calls = CountOf(c.node, {CALL, NUM_TYPE})
             /\ c.metrics.phi_nodes = CountOf(c.node, ControlTypes)
             /\ c.metrics.max_depth = MaxOf({Len(p) : p \in Positions(c.node)})

\* the example was analyzed
C8_Witness ==
    \E c \in AnalyzeCalls : c.node = AnalyzerExample /\ c.metrics.total_nodes = 5

\* None, or the empty record
IsNull(node) == node = PyNone \/ node = EmptyDict

(***************************************************************************)
(* C9 as stated.  Every node whose nodeValueType is absent or empty, an    *)
(* empty record or a record with only other fields, is a null node:        *)
(* regnode_to_expr returns "null", and evaluate_regnode returns 0 with the *)
(* dict unchanged and raises nothing.                                      *)
(***************************************************************************)
C9_AsStated ==
    /\ \A c \in RenderCalls : TypeOf(c.node) = "" => c.expr = "null"
    /\ \A c \in EvaluateCalls :
          TypeOf(c.node) = "" =>
             (c.outcome.ok /\ c.outcome.value = {} /\ c.outcome.env = GivenEnv(c))

(***************************************************************************)
(* C9 amended.  A node that is None or an empty record is a null node:     *)
(* regnode_to_expr returns "null", and evaluate_regnode returns 0 with the *)
(* dict unchanged and raises nothing.  A record that is not empty and has  *)
(* no nodeValueType, or an empty one, is not: regnode_to_expr returns      *)
(* "unknown_" and evaluate_regnode raises the unknown-node-type error,     *)
(* the dict unchanged.                                                     *)
(***************************************************************************)
C9_NullNode ==
    /\ \A c \in RenderCalls :
          TypeOf(c.node) = "" =>
             c.expr = IF IsNull(c.node) THEN "null" ELSE "unknown_"
    /\ \A c \in EvaluateCalls :
          TypeOf(c.node) = "" =>
             /\ c.outcome.env = GivenEnv(c)
             /\ IF IsNull(c.node)
                THEN c.outcome.ok /\ c.outcome.value = {}
                ELSE ~c.outcome.ok /\ c.outcome.error = "Unknown node type: "

\* a record with only a varCnt was evaluated with a dict that is not empty
C9_Witness ==
    \E c \in EvaluateCalls :
       /\ c.node = [varCnt |-> 7]
       /\ GivenEnv(c) # EmptyEnv
       /\ ~c.outcome.ok
       /\ c.outcome.env = GivenEnv(c)

(***************************************************************************)
(* C10.  The dict does not outlive a call: every evaluate_regnode call     *)
(* made without common_values starts from an empty dict, whatever the      *)
(* earlier calls of the batch bound.  Each COMMON node that returns in it  *)
(* was bound earlier in the same call, a COMMON node not bound in the call *)
(* raises the unresolved-reference error, and the dict the call leaves     *)
(* holds the bindings of this call only.                                   *)
(***************************************************************************)
C10_NoPersistence ==
    \A c \in EvaluateCalls :
       c.common_values = NoneArg =>
          LET T == c.outcome.trace IN
          /\ \A k \in Events(T, "return", {COMMON}) :
                HasVarCnt(T[k].node) /\ Binders(T, k, T[k].node.varCnt) # {}
          /\ c.outcome.env = Replay(EmptyEnv, T)
          /\ (c.node = Leaf(COMMON, 7)) =>
                (~c.outcome.ok /\ c.outcome.error = Unresolved(7))

\* a call bound 7, and a later call without common_values on Common(7) failed
C10_Witness ==
    \E j, k \in DOMAIN calls :
       /\ j < k
       /\ calls[j].fn = "evaluate_regnode"
       /\ calls[j].outcome.ok
       /\ 7 \in DOMAIN calls[j].outcome.env
       /\ calls[k].fn = "evaluate_regnode"
       /\ calls[k].common_values = NoneArg
       /\ calls[k].node = Leaf(COMMON, 7)
       /\ ~calls[k].outcome.ok

\* a node whose children list breaks the arity rule of its type
ArityViolation(node) ==
    /\ ~Falsy(node)
    /\ \/ TypeOf(node) \in BinaryTypes /\ Len(ChildrenOf(node)) # 2
       \/ TypeOf(node) \in {ARG, PHI, SELECT} /\ ChildrenOf(node) = << >>

\* the message of the arity error of a node
ArityMessage(node) ==
    IF TypeOf(node) \in BinaryTypes
    THEN OpName(TypeOf(node)) \o " node must have exactly 2 children"
    ELSE IF TypeOf(node) = ARG THEN "ARG node has no children"
    ELSE TypeOf(node) \o " node has no children"

(***************************************************************************)
(* C11.  An arity violation is an error raised before any child is         *)
(* evaluated: whenever evaluate_regnode enters an ADD, AND, OR, SHL or     *)
(* LSHR node whose children list does not have exactly 2 entries, or an    *)
(* ARG, PHI or SELECT node with no children, the very next event is the    *)
(* raise of that same call, no child of the node is entered, the whole     *)
(* call fails with the arity message, and the dict is left as it was when  *)
(* the node was entered: for the root node, the dict the call was given.   *)
(***************************************************************************)
C11_ArityErrors ==
    \A c \in EvaluateCalls :
       LET T == c.outcome.trace IN
       /\ \A k \in DOMAIN T :
             (T[k].ev = "enter" /\ ArityViolation(T[k].node)) =>
                /\ k + 1 = Len(T)
                /\ T[k + 1].ev = "raise"
                /\ T[k + 1].path = T[k].path
                /\ T[k + 1].node = T[k].node
                /\ ~c.outcome.ok
                /\ c.outcome.error = ArityMessage(T[k].node)
                /\ c.outcome.env = Replay(GivenEnv(c), SubSeq(T, 1, k - 1))
       /\ ArityViolation(c.node) =>
             /\ ~c.outcome.ok
             /\ Len(T) = 2
             /\ c.outcome.env = GivenEnv(c)

\* a binary node with three children, the first of which would bind 7, was
\* evaluated with a dict that binds 7, and failed leaving the dict as given
C11_Witness ==
    \E c \in EvaluateCalls :
          /\ TypeOf(c.node) \in BinaryTypes
          /\ Len(ChildrenOf(c.node)) = 3
          /\ HasVarCnt(ChildrenOf(c.node)[1])
          /\ 7 \in DOMAIN GivenEnv(c)
          /\ ~c.outcome.ok
          /\ c.outcome.env = GivenEnv(c)

PrintCalls == {calls[j] : j \in {k \in DOMAIN calls : calls[k].fn = "print_ops"}}

\* the values of the data= fields among printed lines, in order
RECURSIVE DataFields(_)
DataFields(lines) ==
    IF lines = << >> THEN << >>
    ELSE (IF Head(lines)[1] = "        data=" THEN <<Head(lines)[2]>> ELSE << >>)
         \o DataFields(Tail(lines))

\* the direction of an operation record, as print_ops reads it
Direction(op) ==
    IF "operation" \in DOMAIN op THEN Lower(Get(op.operation, "rw", "?")) ELSE ""

\* the regNode of an operation record, the empty dict when it has none
RegNodeOf(op) == Get(op.operation, "regNode", EmptyDict)

(***************************************************************************)
(* C12.  For any sequence of operations passed to print_ops, every write   *)
(* operation is printed with exactly one data= field, whose value is the   *)
(* regnode_to_expr rendering of that operation's own regNode, also when    *)
(* the record has no regNode or an empty one; and for a read operation the *)
(* renderer is not called and no data= field is printed.  The code does    *)
(* not do this: expr is assigned only under `if regNode and rw == 'w'`     *)
(* and printed for every write, so a write without a regNode prints the    *)
(* rendering left by an earlier write, or raises UnboundLocalError when    *)
(* there is none.                                                          *)
(***************************************************************************)
C12_AsStated ==
    \A c \in PrintCalls :
       \A j \in DOMAIN c.ops :
          /\ Direction(c.ops[j]) = "w" =>
                /\ j \in DOMAIN c.printed.iterations
                /\ DataFields(c.printed.iterations[j].lines)
                      = <<regnode_to_expr(RegNodeOf(c.ops[j]), 0)>>
          /\ (Direction(c.ops[j]) = "r" /\ j \in DOMAIN c.printed.iterations) =>
                /\ ~c.printed.iterations[j].rendered
                /\ DataFields(c.printed.iterations[j].lines) = << >>

====
